---- MODULE Spec2Model ----
(***************************************************************************)
(* Model of pl/math/v_exp10f_2u4.c: the four-lane single-precision 10^x    *)
(* routine _ZGVnN4v_exp10f, in both of its builds (WANT_SIMD_EXCEPT set    *)
(* and unset).                                                             *)
(*                                                                         *)
(* A lane is its 32-bit pattern, kept as <<hi, lo>>, two 16-bit halves, so *)
(* that a reinterpret cast is the identity on the lane, exactly as in the  *)
(* code, and unsigned arithmetic wraps modulo 2^32.  The float operations  *)
(* are IEEE-754 binary32 in round-to-nearest-even, computed exactly on     *)
(* arbitrary-length naturals (little-endian sequences of 12-bit limbs)     *)
(* and rounded once.                                                       *)
(***************************************************************************)
EXTENDS Integers, Sequences, FiniteSets, TLC

(***************************************************************************)
(* Arbitrary-length naturals.                                              *)
(***************************************************************************)
LimbBits == 12
LimbBase == 2^LimbBits

Limb(a, i) == IF i <= Len(a) THEN a[i] ELSE 0

RECURSIVE BNorm(_)
BNorm(a) ==
  IF a = <<>> THEN <<>>
  ELSE IF a[Len(a)] = 0 THEN BNorm(SubSeq(a, 1, Len(a) - 1)) ELSE a

RECURSIVE BFromInt(_)
BFromInt(n) ==
  IF n = 0 THEN <<>> ELSE <<n % LimbBase>> \o BFromInt(n \div LimbBase)

RECURSIVE BToIntFrom(_, _)
BToIntFrom(a, i) ==
  IF i > Len(a) THEN 0 ELSE a[i] + LimbBase * BToIntFrom(a, i + 1)

BToInt(a) == BToIntFrom(a, 1)

RECURSIVE BAddC(_, _, _, _)
BAddC(a, b, i, c) ==
  IF i > Len(a) /\ i > Len(b)
  THEN (IF c = 0 THEN <<>> ELSE <<c>>)
  ELSE LET s == Limb(a, i) + Limb(b, i) + c
       IN  <<s % LimbBase>> \o BAddC(a, b, i + 1, s \div LimbBase)

BAdd(a, b) == BAddC(a, b, 1, 0)

RECURSIVE BSubC(_, _, _, _)
BSubC(a, b, i, c) ==
  IF i > Len(a) THEN <<>>
  ELSE LET d == Limb(a, i) - Limb(b, i) - c
       IN  IF d < 0 THEN <<d + LimbBase>> \o BSubC(a, b, i + 1, 1)
                    ELSE <<d>> \o BSubC(a, b, i + 1, 0)

\* a - b, for a >= b
BSub(a, b) == BNorm(BSubC(a, b, 1, 0))

RECURSIVE BCmpFrom(_, _, _)
BCmpFrom(a, b, i) ==
  IF i = 0 THEN 0
  ELSE IF a[i] > b[i] THEN 1
  ELSE IF a[i] < b[i] THEN -1
  ELSE BCmpFrom(a, b, i - 1)

\* -1, 0, 1 as a < b, a = b, a > b (both normalised)
BCmp(a, b) ==
  IF Len(a) > Len(b) THEN 1
  ELSE IF Len(a) < Len(b) THEN -1
  ELSE BCmpFrom(a, b, Len(a))

RECURSIVE BMulLimbC(_, _, _, _)
BMulLimbC(a, d, i, c) ==
  IF i > Len(a) THEN (IF c = 0 THEN <<>> ELSE <<c>>)
  ELSE LET s == a[i] * d + c
       IN  <<s % LimbBase>> \o BMulLimbC(a, d, i + 1, s \div LimbBase)

BMulLimb(a, d) == BNorm(BMulLimbC(a, d, 1, 0))

RECURSIVE BMulFrom(_, _, _)
BMulFrom(a, b, j) ==
  IF j > Len(b) THEN <<>>
  ELSE LET rest == BMulFrom(a, b, j + 1)
       IN  BAdd(BMulLimb(a, b[j]),
                IF rest = <<>> THEN <<>> ELSE <<0>> \o rest)

BMul(a, b) == BNorm(BMulFrom(a, b, 1))

Zeros(k) == [i \in 1..k |-> 0]

\* a * 2^k
BShl(a, k) ==
  IF a = <<>> THEN <<>>
  ELSE Zeros(k \div LimbBits) \o BMulLimb(a, 2^(k % LimbBits))

\* floor(a / 2^k)
BShr(a, k) ==
  LET w == k \div LimbBits
      r == k % LimbBits
  IN  IF w >= Len(a) THEN <<>>
      ELSE BNorm([i \in 1..(Len(a) - w) |->
                   (a[i + w] \div 2^r)
                   + (Limb(a, i + w + 1) % 2^r) * 2^(LimbBits - r)])

\* bit i of a (bit 0 is the least significant)
BBit(a, i) == (Limb(a, (i \div LimbBits) + 1) \div 2^(i % LimbBits)) % 2

\* some bit of a below bit k is set
BLowNonzero(a, k) ==
  \/ \E i \in 1..(k \div LimbBits) : Limb(a, i) # 0
  \/ Limb(a, (k \div LimbBits) + 1) % 2^(k % LimbBits) # 0

RECURSIVE IntBitLen(_)
IntBitLen(n) == IF n = 0 THEN 0 ELSE 1 + IntBitLen(n \div 2)

\* number of significant bits of a
BLen(a) ==
  IF a = <<>> THEN 0
  ELSE (Len(a) - 1) * LimbBits + IntBitLen(a[Len(a)])

(***************************************************************************)
(* uint32x4_t lanes: 32-bit patterns <<hi, lo>>, arithmetic modulo 2^32.   *)
(***************************************************************************)
Half == 65536

U32(hi, lo) == <<hi, lo>>

U32Add(a, b) ==
  LET l == a[2] + b[2]
  IN  <<(a[1] + b[1] + (l \div Half)) % Half, l % Half>>

U32Sub(a, b) ==
  LET l == a[2] - b[2]
      c == IF l < 0 THEN 1 ELSE 0
  IN  <<(a[1] - b[1] - c + Half) % Half, (l + Half) % Half>>

U32Ge(a, b) == a[1] > b[1] \/ (a[1] = b[1] /\ a[2] >= b[2])

RECURSIVE And16(_, _, _)
And16(x, y, k) ==
  IF k = 0 THEN 0
  ELSE (x % 2) * (y % 2) + 2 * And16(x \div 2, y \div 2, k - 1)

U32And(a, b) == <<And16(a[1], b[1], 16), And16(a[2], b[2], 16)>>

U32Not(a) == <<(Half - 1) - a[1], (Half - 1) - a[2]>>

\* the operands have no common bit wherever this is used (a bitwise select)
U32Or(a, b) ==
  <<a[1] + b[1] - And16(a[1], b[1], 16), a[2] + b[2] - And16(a[2], b[2], 16)>>

\* (a << k) mod 2^32, 0 <= k < 32
U32Shl(a, k) ==
  IF k >= 16
  THEN <<(a[2] * 2^(k - 16)) % Half, 0>>
  ELSE <<(a[1] * 2^k + (a[2] * 2^k) \div Half) % Half, (a[2] * 2^k) % Half>>

AllOnes == U32(Half - 1, Half - 1)
AllZero == U32(0, 0)

\* a comparison's lane: all ones when it holds, zero when not
MaskOf(c) == IF c THEN AllOnes ELSE AllZero

(***************************************************************************)
(* IEEE-754 binary32 on the patterns.                                      *)
(***************************************************************************)
ManBits == 23
ExpMax == 255

SignOf(u) == u[1] \div 32768
ExpOf(u) == (u[1] \div 128) % 256
ManOf(u) == (u[1] % 128) * Half + u[2]

MkF(s, e, m) == <<s * 32768 + e * 128 + (m \div Half), m % Half>>

IsNaN(u) == ExpOf(u) = ExpMax /\ ManOf(u) # 0
IsSNaN(u) == IsNaN(u) /\ ManOf(u) < 2^(ManBits - 1)
IsInf(u) == ExpOf(u) = ExpMax /\ ManOf(u) = 0
IsZero(u) == ExpOf(u) = 0 /\ ManOf(u) = 0

DefaultNaN == MkF(0, ExpMax, 2^(ManBits - 1))
Quiet(u) == IF IsSNaN(u) THEN MkF(SignOf(u), ExpMax, ManOf(u) + 2^(ManBits - 1)) ELSE u
InfOf(s) == MkF(s, ExpMax, 0)
ZeroOf(s) == MkF(s, 0, 0)
FNeg(u) == MkF(1 - SignOf(u), ExpOf(u), ManOf(u))
FAbs(u) == MkF(0, ExpOf(u), ManOf(u))

\* a finite u is (-1)^SignOf(u) * SigOf(u) * 2^QOf(u)
SigOf(u) == IF ExpOf(u) = 0 THEN ManOf(u) ELSE ManOf(u) + 2^ManBits
QOf(u) == IF ExpOf(u) = 0 THEN -149 ELSE ExpOf(u) - 150

\* (-1)^s * M * 2^E rounded to nearest, ties to even
RoundF(s, M, E) ==
  IF M = <<>> THEN ZeroOf(s)
  ELSE
    LET L  == BLen(M)
        q0 == IF E + L - 24 > -149 THEN E + L - 24 ELSE -149
        sh == q0 - E
        Q0 == IF sh <= 0 THEN BToInt(BShl(M, -sh)) ELSE BToInt(BShr(M, sh))
        up == /\ sh > 0
              /\ BBit(M, sh - 1) = 1
              /\ (BLowNonzero(M, sh - 1) \/ Q0 % 2 = 1)
        Q1 == IF up THEN Q0 + 1 ELSE Q0
        Q  == IF Q1 = 2^(ManBits + 1) THEN 2^ManBits ELSE Q1
        q  == IF Q1 = 2^(ManBits + 1) THEN q0 + 1 ELSE q0
    IN  IF Q < 2^ManBits THEN MkF(s, 0, Q)
        ELSE IF q + 150 >= ExpMax THEN InfOf(s)
        ELSE MkF(s, q + 150, Q - 2^ManBits)

\* (-1)^s1 * M1 * 2^E1 + (-1)^s2 * M2 * 2^E2, rounded once
AddRound(s1, M1, E1, s2, M2, E2) ==
  IF M1 = <<>> /\ M2 = <<>> THEN ZeroOf(IF s1 = s2 THEN s1 ELSE 0)
  ELSE IF M1 = <<>> THEN RoundF(s2, M2, E2)
  ELSE IF M2 = <<>> THEN RoundF(s1, M1, E1)
  ELSE
    LET E == IF E1 < E2 THEN E1 ELSE E2
        A == BShl(M1, E1 - E)
        B == BShl(M2, E2 - E)
        c == BCmp(A, B)
    IN  IF s1 = s2 THEN RoundF(s1, BAdd(A, B), E)
        ELSE IF c = 0 THEN ZeroOf(0)
        ELSE IF c > 0 THEN RoundF(s1, BSub(A, B), E)
        ELSE RoundF(s2, BSub(B, A), E)

\* a * b
FMul(a, b) ==
  LET s == (SignOf(a) + SignOf(b)) % 2
  IN  IF IsSNaN(a) THEN Quiet(a)
      ELSE IF IsSNaN(b) THEN Quiet(b)
      ELSE IF IsNaN(a) THEN a
      ELSE IF IsNaN(b) THEN b
      ELSE IF (IsInf(a) /\ IsZero(b)) \/ (IsZero(a) /\ IsInf(b)) THEN DefaultNaN
      ELSE IF IsInf(a) \/ IsInf(b) THEN InfOf(s)
      ELSE RoundF(s, BMul(BFromInt(SigOf(a)), BFromInt(SigOf(b))), QOf(a) + QOf(b))

\* a + b
FAdd(a, b) ==
  IF IsSNaN(a) THEN Quiet(a)
  ELSE IF IsSNaN(b) THEN Quiet(b)
  ELSE IF IsNaN(a) THEN a
  ELSE IF IsNaN(b) THEN b
  ELSE IF IsInf(a) /\ IsInf(b) /\ SignOf(a) # SignOf(b) THEN DefaultNaN
  ELSE IF IsInf(a) THEN a
  ELSE IF IsInf(b) THEN b
  ELSE AddRound(SignOf(a), BFromInt(SigOf(a)), QOf(a),
                SignOf(b), BFromInt(SigOf(b)), QOf(b))

\* a - b
FSub(a, b) == IF IsNaN(b) THEN FAdd(a, b) ELSE FAdd(a, FNeg(b))

\* c + a * b with one rounding
FMulAdd(c, a, b) ==
  LET sp   == (SignOf(a) + SignOf(b)) % 2
      infp == IsInf(a) \/ IsInf(b)
      bad  == (IsInf(a) /\ IsZero(b)) \/ (IsZero(a) /\ IsInf(b))
  IN  IF IsSNaN(c) THEN Quiet(c)
      ELSE IF IsSNaN(a) THEN Quiet(a)
      ELSE IF IsSNaN(b) THEN Quiet(b)
      ELSE IF IsNaN(c) THEN (IF bad THEN DefaultNaN ELSE c)
      ELSE IF IsNaN(a) THEN a
      ELSE IF IsNaN(b) THEN b
      ELSE IF bad THEN DefaultNaN
      ELSE IF IsInf(c) /\ infp /\ SignOf(c) # sp THEN DefaultNaN
      ELSE IF IsInf(c) THEN c
      ELSE IF infp THEN InfOf(sp)
      ELSE AddRound(sp, BMul(BFromInt(SigOf(a)), BFromInt(SigOf(b))), QOf(a) + QOf(b),
                    SignOf(c), BFromInt(SigOf(c)), QOf(c))

\* c - a * b with one rounding
FMulSub(c, a, b) == FMulAdd(c, FNeg(a), b)

\* a < b on the reals they denote; false when either is a NaN
FLt(a, b) ==
  /\ ~IsNaN(a) /\ ~IsNaN(b)
  /\ ~(IsZero(a) /\ IsZero(b))
  /\ IF SignOf(a) # SignOf(b) THEN SignOf(a) = 1
     ELSE IF SignOf(a) = 0 THEN ~U32Ge(a, b)
     ELSE ~U32Ge(b, a)

\* |a| > |b|
FAcGt(a, b) == FLt(FAbs(b), FAbs(a))

\* a <= 0
FLeZero(a) == ~IsNaN(a) /\ (IsZero(a) \/ SignOf(a) = 1)

(***************************************************************************)
(* Vectors: float32x4_t and uint32x4_t are functions from the lanes to     *)
(* patterns; every operation below is lane-wise.                           *)
(***************************************************************************)
Width == 4
Lanes == 0..(Width - 1)

v_u32(c) == [i \in Lanes |-> c]
v_f32(c) == [i \in Lanes |-> c]

\* a reinterpret cast leaves the pattern as it is
vreinterpretq_u32_f32(a) == a
vreinterpretq_f32_u32(a) == a

vandq_u32(a, b) == [i \in Lanes |-> U32And(a[i], b[i])]
vaddq_u32(a, b) == [i \in Lanes |-> U32Add(a[i], b[i])]
vsubq_u32(a, b) == [i \in Lanes |-> U32Sub(a[i], b[i])]
vshlq_n_u32(a, k) == [i \in Lanes |-> U32Shl(a[i], k)]
vcgeq_u32(a, b) == [i \in Lanes |-> MaskOf(U32Ge(a[i], b[i]))]

vmulq_f32(a, b) == [i \in Lanes |-> FMul(a[i], b[i])]
vsubq_f32(a, b) == [i \in Lanes |-> FSub(a[i], b[i])]
\* a + b * c
vfmaq_f32(a, b, c) == [i \in Lanes |-> FMulAdd(a[i], b[i], c[i])]
\* a - b * c
vfmsq_f32(a, b, c) == [i \in Lanes |-> FMulSub(a[i], b[i], c[i])]
\* |a| > |b|
vcagtq_f32(a, b) == [i \in Lanes |-> MaskOf(FAcGt(a[i], b[i]))]
\* a <= 0
vclezq_f32(a) == [i \in Lanes |-> MaskOf(FLeZero(a[i]))]
\* bitwise select: a's bits where the mask is set, b's elsewhere
vbslq_f32(m, a, b) ==
  [i \in Lanes |-> U32Or(U32And(m[i], a[i]), U32And(U32Not(m[i]), b[i]))]

v_any_u32(m) == \E i \in Lanes : m[i] # AllZero

(***************************************************************************)
(* The scalar routine exp10f is an external collaborator.  A returned lane *)
(* is either a pattern the vector code computed, or the float exp10f       *)
(* returns on a given argument pattern.                                    *)
(***************************************************************************)
Value(v) == [exp10f |-> FALSE, of |-> v]
exp10f(v) == [exp10f |-> TRUE, of |-> v]

Returned(y) == [i \in Lanes |-> Value(y[i])]

\* p[i] ? f (x[i]) : y[i], lane by lane
v_call_f32(xv, yv, p) ==
  [i \in Lanes |-> IF p[i] # AllZero THEN exp10f(xv[i]) ELSE Value(yv[i])]

\* the lanes f is called on, with the argument of each call
v_call_f32_calls(xv, p) == {<<i, xv[i]>> : i \in {j \in Lanes : p[j] # AllZero}}

(***************************************************************************)
(* The constant table and the thresholds.                                  *)
(***************************************************************************)
ScaleBound == U32(\h4340, \h0000)         \* 192.0f
data_poly_0 == U32(\h4013, \h5d8b)                 \* 0x1.26bb16p+1f
data_poly_1 == U32(\h4029, \ha869)                 \* 0x1.5350d2p+1f
data_poly_2 == U32(\h4002, \h3a25)                 \* 0x1.04744ap+1f
data_poly_3 == U32(\h3f96, \hc0bb)                 \* 0x1.2d8176p+0f
data_poly_4 == U32(\h3f09, \h5a0d)                 \* 0x1.12b41ap-1f
data_shift == U32(\h4b40, \h0000)         \* 0x1.8p23f
data_log10_2 == U32(\h4054, \h9a78)       \* 0x1.a934fp+1
data_log2_10_hi == U32(\h3e9a, \h209b)    \* 0x1.344136p-2
data_log2_10_lo == U32(\hb276, \h0860)    \* -0x1.ec10cp-27
\* 512.0f in place of ScaleBound
data_scale_thresh_512 == U32(\h4400, \h0000)
data_scale_thresh == ScaleBound
\* the pattern of 0.5f in place of that of 1.0f
ExponentBias_Half == U32(\h3f00, \h0000)
ExponentBias == U32(\h3f80, \h0000)

One == U32(\h3f80, \h0000)                \* 1.0f
AbsMask == U32(\h7fff, \hffff)

\* WANT_SIMD_EXCEPT
SpecialBoundExcept == U32(\h4218, \h0000) \* 38.0f
TinyBound == U32(\h2000, \h0000)          \* asuint (0x1p-63)
BigBound == U32(\h4218, \h0000)           \* asuint (SpecialBound)
\* BigBound itself: the subtraction of TinyBound forgotten
Thres_BigBound == U32(\h4218, \h0000)
Thres == U32(\h2218, \h0000)              \* BigBound - TinyBound

\* !WANT_SIMD_EXCEPT
SpecialBound == U32(\h42fc, \h0000)       \* 126.0f
\* an offset one exponent step short
SpecialOffset_81 == U32(\h8100, \h0000)
SpecialOffset == U32(\h8200, \h0000)
SpecialBias == U32(\h7f00, \h0000)

(***************************************************************************)
(* The steps of V_NAME_F1 (exp10) as functions of the vectors they read.   *)
(***************************************************************************)
\* the sign bit is not cleared before the subtraction
PreClassify_Signed(xv) ==
  vcgeq_u32(vsubq_u32(vreinterpretq_u32_f32(xv), v_u32(TinyBound)), v_u32(Thres))

\* asuint(x) - TinyBound >= BigBound - TinyBound
PreClassify(xv) ==
  vcgeq_u32(vsubq_u32(vandq_u32(vreinterpretq_u32_f32(xv), v_u32(AbsMask)),
                      v_u32(TinyBound)),
            v_u32(Thres))

\* no lane is masked
MaskSpecial_None(c, xv) == xv

\* every lane is masked once any lane is special
MaskSpecial_All(c, xv) == IF v_any_u32(c) THEN v_f32(One) ELSE xv

\* special lanes masked with 1
MaskSpecial(c, xv) ==
  IF v_any_u32(c) THEN vbslq_f32(c, v_f32(One), xv) ELSE xv

ReduceZ(xv) == vfmaq_f32(v_f32(data_shift), xv, v_f32(data_log10_2))
ReduceN(zv) == vsubq_f32(zv, v_f32(data_shift))
ReduceR(xv, nv) ==
  vfmsq_f32(vfmsq_f32(xv, nv, v_f32(data_log2_10_hi)), nv, v_f32(data_log2_10_lo))
ExponentBits(zv) == vshlq_n_u32(vreinterpretq_u32_f32(zv), 23)
Scale(ev) == vreinterpretq_f32_u32(vaddq_u32(ev, v_u32(ExponentBias)))

FastClassify(nv) == vcagtq_f32(nv, v_f32(SpecialBound))

Poly(rv) ==
  LET rr == vmulq_f32(rv, rv)
      p1 == vfmaq_f32(v_f32(data_poly_3), v_f32(data_poly_4), rv)
      q1 == vfmaq_f32(v_f32(data_poly_1), v_f32(data_poly_2), rv)
      q2 == vfmaq_f32(q1, p1, rr)
      p2 == vmulq_f32(v_f32(data_poly_0), rv)
  IN  vfmaq_f32(p2, q2, rr)

Reconstruct(sv, pv) == vfmaq_f32(sv, pv, sv)

(***************************************************************************)
(* special_case of the build without WANT_SIMD_EXCEPT, local by local.     *)
(***************************************************************************)
SpecialB(nv) == vandq_u32(vclezq_f32(nv), v_u32(SpecialOffset))
SpecialS1(bv) == vreinterpretq_f32_u32(vaddq_u32(bv, v_u32(SpecialBias)))
SpecialS2(ev, bv) == vreinterpretq_f32_u32(vsubq_u32(ev, bv))
SpecialCmp2(nv) == vcagtq_f32(nv, v_f32(data_scale_thresh))
SpecialR2(s1v) == vmulq_f32(s1v, s1v)
SpecialR1(s1v, s2v, pv) == vmulq_f32(vfmaq_f32(s2v, pv, s2v), s1v)
SpecialR0(sv, pv) == vfmaq_f32(sv, pv, sv)
\* the two selects in the other order: cmp1 applied last
SpecialSelect_Cmp1Last(c1, c2, a0, a1, a2) == vbslq_f32(c1, a1, vbslq_f32(c2, a2, a0))
SpecialSelect(c1, c2, a0, a1, a2) == vbslq_f32(c2, a2, vbslq_f32(c1, a1, a0))

\* special_case of the WANT_SIMD_EXCEPT build
special_case_except(xv, yv, c) == v_call_f32(xv, yv, c)

(***************************************************************************)
(* The input batches.                                                      *)
(***************************************************************************)
MaxSweep == 60

\* the float k / 4
Quarter(k) == RoundF(IF k < 0 THEN 1 ELSE 0, BFromInt(IF k < 0 THEN -k ELSE k), -2)

\* four consecutive quarters: x from -MaxSweep to MaxSweep + 0.75, which is
\* every n from below -192 to above 192
SweepBatches ==
  {[i \in Lanes |-> Quarter(Width * j + i)] : j \in (-MaxSweep)..MaxSweep}

Probes ==
  << U32(\h0000, \h0000),    \* +0
     U32(\h8000, \h0000),    \* -0
     U32(\h0000, \h0001),    \* 0x1p-149
     U32(\h1f80, \h0000),    \* 0x1p-64
     U32(\h9f80, \h0000),    \* -0x1p-64
     U32(\h1fff, \hffff),    \* the float below 0x1p-63
     U32(\h2000, \h0000),    \* 0x1p-63
     U32(\ha000, \h0000),    \* -0x1p-63
     U32(\h3f80, \h0000),    \* 1.0
     U32(\h405f, \h159b),    \* 0x1.be2b36p+1
     U32(\h4217, \hffff),    \* the float below 38.0
     U32(\h4218, \h0000),    \* 38.0
     U32(\hc217, \hffff),    \* the float above -38.0
     U32(\hc218, \h0000),    \* -38.0
     U32(\h421a, \h0000),    \* 38.5
     U32(\hc220, \h0000),    \* -40.0
     U32(\hc234, \h0000),    \* -45.0
     U32(\h4348, \h0000),    \* 200.0
     U32(\hc348, \h0000),    \* -200.0
     U32(\h42c8, \h0000),    \* 100.0
     U32(\hc2c8, \h0000),    \* -100.0
     U32(\hc99e, \hb16a),    \* -0x1.3d62d4p+20, where n is no integer
     U32(\h5015, \h02f9),    \* 1e10
     U32(\h7f7f, \hffff),    \* FLT_MAX
     U32(\hff7f, \hffff),    \* -FLT_MAX
     U32(\h7f80, \h0000),    \* +inf
     U32(\hff80, \h0000),    \* -inf
     U32(\h7fc0, \h0000),    \* NaN
     U32(\hffc0, \h0123),    \* a negative NaN with a payload
     U32(\h7f80, \h0001) >>  \* a signalling NaN

Companions ==
  << U32(\h405f, \h159b),    \* 0x1.be2b36p+1: special in neither build
     U32(\h1f80, \h0000),    \* 0x1p-64: special in the WANT_SIMD_EXCEPT build
     U32(\h4220, \h0000),    \* 40.0: special in both, 126 < n <= 192
     U32(\h4348, \h0000) >>  \* 200.0: special in both, n > 192

\* probe a in the first lane, in the last lane, or in every lane (p = Width),
\* companion b elsewhere
ProbeBatches ==
  {[i \in Lanes |-> IF p = Width \/ i = p THEN Probes[a] ELSE Companions[b]] :
     a \in 1..Len(Probes), b \in 1..Len(Companions), p \in {0, Width - 1, Width}}

\* batches whose lanes fall in different classes
MixedBatches ==
  { <<U32(\h405f, \h159b), U32(\hc220, \h0000), U32(\h42c8, \h0000), U32(\hc2c8, \h0000)>>,
         \* 0x1.be2b36p+1, -40.0, 100.0, -100.0
    <<U32(\h0000, \h0000), U32(\h7fc0, \h0000), U32(\hc217, \hffff), U32(\hc234, \h0000)>> }
         \* +0, NaN, the float above -38.0, -45.0

\* a C array <<a, b, c, d>> as a vector over the lanes 0..3
AsVector(t) == [i \in Lanes |-> t[i + 1]]

Batches == SweepBatches \cup ProbeBatches \cup {AsVector(t) : t \in MixedBatches}

(***************************************************************************)
(* One call of V_NAME_F1 (exp10) (x), step by step.                        *)
(***************************************************************************)
VARIABLES
  want_simd_except,  \* the build: WANT_SIMD_EXCEPT
  pc,                \* where the call is
  arg,               \* the caller's argument
  x, xm, cmp,        \* the parameter, its retained copy, the special lanes
  z, n, r, e, scale, poly,
  y,                 \* vfmaq_f32 (scale, poly, scale)
  s1, s2, cmp2, r0, r1, r2,   \* special_case's locals (!WANT_SIMD_EXCEPT)
  ret,               \* the returned vector
  calls              \* exp10f's invocations: <<lane, argument>>

vars == <<want_simd_except, pc, arg, x, xm, cmp, z, n, r, e, scale, poly, y,
          s1, s2, cmp2, r0, r1, r2, ret, calls>>

Unset == v_u32(AllZero)

Init ==
  /\ want_simd_except \in BOOLEAN
  /\ arg \in Batches
  /\ x = arg
  /\ pc = IF want_simd_except THEN "classify" ELSE "reduce"
  /\ xm = Unset /\ cmp = Unset
  /\ z = Unset /\ n = Unset /\ r = Unset /\ e = Unset /\ scale = Unset
  /\ poly = Unset /\ y = Unset
  /\ s1 = Unset /\ s2 = Unset /\ cmp2 = Unset
  /\ r0 = Unset /\ r1 = Unset /\ r2 = Unset
  /\ ret = Returned(Unset)
  /\ calls = {}

\* the copy is taken after the masking
Classify_CopyAfterMask ==
  /\ pc = "classify"
  /\ want_simd_except
  /\ cmp' = PreClassify(x)
  /\ x' = MaskSpecial(cmp', x)
  /\ xm' = x'
  /\ pc' = "reduce"
  /\ UNCHANGED <<want_simd_except, arg, z, n, r, e, scale, poly, y,
                 s1, s2, cmp2, r0, r1, r2, ret, calls>>

\* lines 88-100: classify, keep a copy of x, mask the special lanes with 1
Classify ==
  /\ pc = "classify"
  /\ want_simd_except
  /\ cmp' = PreClassify(x)
  /\ xm' = x
  /\ x' = MaskSpecial(cmp', x)
  /\ pc' = "reduce"
  /\ UNCHANGED <<want_simd_except, arg, z, n, r, e, scale, poly, y,
                 s1, s2, cmp2, r0, r1, r2, ret, calls>>

\* lines 105-115: z, n, r, e, scale and, without WANT_SIMD_EXCEPT, cmp
Reduce ==
  /\ pc = "reduce"
  /\ z' = ReduceZ(x)
  /\ n' = ReduceN(z')
  /\ r' = ReduceR(x, n')
  /\ e' = ExponentBits(z')
  /\ scale' = Scale(e')
  /\ cmp' = IF want_simd_except THEN cmp ELSE FastClassify(n')
  /\ pc' = "poly"
  /\ UNCHANGED <<want_simd_except, arg, x, xm, poly, y,
                 s1, s2, cmp2, r0, r1, r2, ret, calls>>

\* lines 117-122
Polynomial ==
  /\ pc = "poly"
  /\ poly' = Poly(r)
  /\ pc' = "dispatch"
  /\ UNCHANGED <<want_simd_except, arg, x, xm, cmp, z, n, r, e, scale, y,
                 s1, s2, cmp2, r0, r1, r2, ret, calls>>

\* line 131: no lane is special
ReturnOrdinary ==
  /\ pc = "dispatch"
  /\ ~v_any_u32(cmp)
  /\ y' = Reconstruct(scale, poly)
  /\ ret' = Returned(y')
  /\ pc' = "done"
  /\ UNCHANGED <<want_simd_except, arg, x, xm, cmp, z, n, r, e, scale, poly,
                 s1, s2, cmp2, r0, r1, r2, calls>>

\* line 126: the argument vfmaq_f32 (scale, poly, scale) is evaluated, then
\* special_case is entered
CallSpecialExcept ==
  /\ pc = "dispatch"
  /\ want_simd_except
  /\ v_any_u32(cmp)
  /\ y' = Reconstruct(scale, poly)
  /\ pc' = "special"
  /\ UNCHANGED <<want_simd_except, arg, x, xm, cmp, z, n, r, e, scale, poly,
                 s1, s2, cmp2, r0, r1, r2, ret, calls>>

\* lines 49-55, called as special_case (xm, y, cmp)
SpecialCaseExcept ==
  /\ pc = "special"
  /\ want_simd_except
  /\ ret' = special_case_except(xm, y, cmp)
  /\ calls' = v_call_f32_calls(xm, cmp)
  /\ pc' = "done"
  /\ UNCHANGED <<want_simd_except, arg, x, xm, cmp, z, n, r, e, scale, poly, y,
                 s1, s2, cmp2, r0, r1, r2>>

\* line 128
CallSpecialFast ==
  /\ pc = "dispatch"
  /\ ~want_simd_except
  /\ v_any_u32(cmp)
  /\ pc' = "special"
  /\ UNCHANGED <<want_simd_except, arg, x, xm, cmp, z, n, r, e, scale, poly, y,
                 s1, s2, cmp2, r0, r1, r2, ret, calls>>

\* lines 63-78, called as special_case (poly, n, e, cmp, scale)
SpecialCaseFast ==
  /\ pc = "special"
  /\ ~want_simd_except
  /\ s1' = SpecialS1(SpecialB(n))
  /\ s2' = SpecialS2(e, SpecialB(n))
  /\ cmp2' = SpecialCmp2(n)
  /\ r2' = SpecialR2(s1')
  /\ r1' = SpecialR1(s1', s2', poly)
  /\ r0' = SpecialR0(scale, poly)
  /\ ret' = Returned(SpecialSelect(cmp, cmp2', r0', r1', r2'))
  /\ pc' = "done"
  /\ UNCHANGED <<want_simd_except, arg, x, xm, cmp, z, n, r, e, scale, poly, y,
                 calls>>

Next ==
  \/ Classify
  \/ Reduce
  \/ Polynomial
  \/ ReturnOrdinary
  \/ CallSpecialExcept
  \/ SpecialCaseExcept
  \/ CallSpecialFast
  \/ SpecialCaseFast

Spec == Init /\ [][Next]_vars

\* special_case without WANT_SIMD_EXCEPT, as one function of its arguments
special_case_fast(pv, nv, ev, c1, sv) ==
  LET bv == SpecialB(nv)
      a1 == SpecialS1(bv)
      a2 == SpecialS2(ev, bv)
  IN  SpecialSelect(c1, SpecialCmp2(nv),
                    SpecialR0(sv, pv), SpecialR1(a1, a2, pv), SpecialR2(a1))

\* vfmaq_f32 (scale, poly, scale) computed from xv: the ordinary reconstruction
Ordinary(xv) ==
  LET zv == ReduceZ(xv)
  IN  Reconstruct(Scale(ExponentBits(zv)), Poly(ReduceR(xv, ReduceN(zv))))

\* V_NAME_F1 (exp10) (xv) of the build w, as one function of its argument
V_exp10(w, xv) ==
  LET c0 == PreClassify(xv)
      xa == IF w THEN MaskSpecial(c0, xv) ELSE xv
      zv == ReduceZ(xa)
      nv == ReduceN(zv)
      rv == ReduceR(xa, nv)
      ev == ExponentBits(zv)
      sv == Scale(ev)
      c  == IF w THEN c0 ELSE FastClassify(nv)
      pv == Poly(rv)
  IN  IF v_any_u32(c)
      THEN IF w THEN special_case_except(xv, Reconstruct(sv, pv), c)
                ELSE Returned(special_case_fast(pv, nv, ev, c, sv))
      ELSE Returned(Reconstruct(sv, pv))

(***************************************************************************)
(* What a pattern denotes, for stating the properties: magnitudes are      *)
(* compared as exact numbers, not through the patterns' order.             *)
(***************************************************************************)
IsFinite(u) == ExpOf(u) # ExpMax

\* |u| against m * 2^q, for finite u: -1, 0, 1
MagCmp(u, m, q) ==
  LET lo == IF QOf(u) < q THEN QOf(u) ELSE q
  IN  BCmp(BShl(BFromInt(SigOf(u)), QOf(u) - lo), BShl(BFromInt(m), q - lo))

\* |u| > k, with |inf| above every k and a NaN above none
MagGt(u, k) == IsInf(u) \/ (IsFinite(u) /\ MagCmp(u, k, 0) > 0)

\* 0x1p-63 <= |u| < 38
InPlainRange(u) == IsFinite(u) /\ MagCmp(u, 1, -63) >= 0 /\ MagCmp(u, 38, 0) < 0

\* u is an integer of magnitude below 2^24
IsSmallInt(u) ==
  /\ IsFinite(u)
  /\ MagCmp(u, 1, 24) < 0
  /\ (IsZero(u) \/ QOf(u) >= 0 \/ (QOf(u) >= -ManBits /\ SigOf(u) % 2^(-QOf(u)) = 0))

\* that integer
IntVal(u) ==
  LET m == IF IsZero(u) THEN 0
           ELSE IF QOf(u) >= 0 THEN SigOf(u) * 2^QOf(u)
           ELSE SigOf(u) \div 2^(-QOf(u))
  IN  IF SignOf(u) = 1 THEN -m ELSE m

\* a positive normal power of two
IsPow2(u) == SignOf(u) = 0 /\ ManOf(u) = 0 /\ ExpOf(u) \in 1..254

Flagged(i) == cmp[i] # AllZero

(***************************************************************************)
(* The properties.                                                         *)
(***************************************************************************)

\* C1: in the WANT_SIMD_EXCEPT build a flagged lane returns what exp10f
\* returns on the original input of that lane, an unflagged lane returns the
\* ordinary reconstruction vfmaq_f32 (scale, poly, scale) computed from its
\* input, and exp10f is invoked on the flagged lanes only, each on its original
\* input, and only after the vector result has been computed for all lanes.
C1_ScalarFallback ==
  want_simd_except =>
    /\ (pc # "done" => calls = {})
    /\ (pc = "special" => y = Reconstruct(scale, poly))
    /\ (pc = "done" =>
          /\ y = Reconstruct(scale, poly)
          /\ \A i \in Lanes :
               IF Flagged(i) THEN ret[i] = exp10f(arg[i])
                             ELSE ret[i] = Value(Ordinary(arg)[i])
          /\ calls = {<<i, arg[i]>> : i \in {j \in Lanes : Flagged(j)}})

\* a finished call with a flagged lane, whose input is not the placeholder,
\* beside an unflagged one
C1_Witness ==
  /\ want_simd_except /\ pc = "done"
  /\ \E i, j \in Lanes :
       /\ Flagged(i) /\ arg[i] # One /\ ret[i] = exp10f(arg[i])
       /\ ~Flagged(j) /\ ~ret[j].exp10f

\* C6: in the WANT_SIMD_EXCEPT build the range test flags a lane exactly when
\* |x| < 0x1p-63 (+0 and -0 among them) or |x| >= 38 (the infinities and every
\* NaN among them).
C6_RangeTest ==
  (want_simd_except /\ pc # "classify") =>
    \A i \in Lanes :
      /\ cmp[i] \in {AllOnes, AllZero}
      /\ cmp[i] = AllOnes <=>
           \/ ~IsFinite(arg[i])
           \/ MagCmp(arg[i], 1, -63) < 0
           \/ MagCmp(arg[i], 38, 0) >= 0

\* a zero and a NaN flagged beside a lane left alone
C6_Witness ==
  /\ want_simd_except /\ pc = "reduce"
  /\ \E i, j, k \in Lanes :
       /\ IsZero(arg[i]) /\ Flagged(i)
       /\ IsNaN(arg[j]) /\ Flagged(j)
       /\ InPlainRange(arg[k]) /\ ~Flagged(k)

\* C7: in the WANT_SIMD_EXCEPT build the vector arithmetic reads, in each lane,
\* either the placeholder 1.0 (a flagged lane) or the original input, which then
\* satisfies 0x1p-63 <= |x| < 38; the original of a flagged lane is kept in xm
\* alone.
C7_MaskedOperands ==
  (want_simd_except /\ pc # "classify") =>
    /\ xm = arg
    /\ \A i \in Lanes :
         IF Flagged(i) THEN x[i] = One
                       ELSE x[i] = arg[i] /\ InPlainRange(arg[i])
    /\ (pc # "reduce" =>
          /\ z = ReduceZ(x)
          /\ n = ReduceN(z)
          /\ r = ReduceR(x, n))
    /\ (pc \in {"dispatch", "special", "done"} => poly = Poly(r))

\* a finished call in which a flagged lane was computed from the placeholder
C7_Witness ==
  /\ want_simd_except /\ pc = "done"
  /\ \E i, j \in Lanes :
       /\ Flagged(i) /\ xm[i] # One /\ x[i] = One /\ z[i] = ReduceZ(v_f32(One))[i]
       /\ ~Flagged(j) /\ x[j] = xm[j]

\* C2: in both builds the returned lane i is a function of the input lane i
\* alone: it is what the same build returns in lane 0 for the batch holding
\* that input in every lane.  Without WANT_SIMD_EXCEPT, a lane that is not
\* special returns vfmaq_f32 (scale, poly, scale) on either path.
C2_LaneIndependence ==
  pc = "done" =>
    \A i \in Lanes :
      /\ ret[i] = V_exp10(want_simd_except, v_f32(arg[i]))[0]
      /\ (~want_simd_except /\ ~Flagged(i)) => ret[i] = Value(Ordinary(arg)[i])

\* a call that went through special_case with a lane that is not special, in
\* each build's way of being special
C2_Witness ==
  /\ pc = "done"
  /\ \E i, j \in Lanes :
       /\ Flagged(i) /\ ~Flagged(j) /\ arg[i] # arg[j]
       /\ ret[j] = Value(Ordinary(arg)[j])
       /\ ret[i] # Value(Ordinary(arg)[i])

\* C3: without WANT_SIMD_EXCEPT a lane with |n| > 192, the lanes of +inf and
\* -inf among them, returns s1 * s1: +infinity when n > 0 and zero when n <= 0,
\* never a finite value other than zero; x = 200 returns +infinity.
C3_Saturation ==
  (~want_simd_except /\ pc = "done") =>
    \A i \in Lanes :
      /\ MagGt(n[i], 192) =>
           /\ ret[i] = Value(FMul(s1[i], s1[i]))
           /\ ret[i] = Value(IF SignOf(n[i]) = 0 THEN InfOf(0) ELSE ZeroOf(0))
      /\ IsInf(arg[i]) => MagGt(n[i], 192)
      /\ arg[i] = U32(\h4348, \h0000) => ret[i] = Value(InfOf(0))

\* -inf returning zero beside 200 returning +infinity
C3_Witness ==
  /\ ~want_simd_except /\ pc = "done"
  /\ \E i, j \in Lanes :
       /\ arg[i] = InfOf(1) /\ MagGt(n[i], 192) /\ ret[i] = Value(ZeroOf(0))
       /\ arg[j] = U32(\h4348, \h0000) /\ ret[j] = Value(InfOf(0))

\* C8: without WANT_SIMD_EXCEPT, when special_case runs, a lane returns
\* r0 = vfmaq_f32 (scale, poly, scale) when |n| <= 126 or n is a NaN,
\* r1 = (s2 + poly * s2) * s1 when 126 < |n| <= 192, and r2 = s1 * s1 when
\* |n| > 192: the |n| > 192 select overrides the |n| > 126 one.
C8_ThreeWaySelect ==
  (~want_simd_except /\ pc = "done" /\ v_any_u32(cmp)) =>
    /\ r0 = vfmaq_f32(scale, poly, scale)
    /\ r1 = vmulq_f32(vfmaq_f32(s2, poly, s2), s1)
    /\ r2 = vmulq_f32(s1, s1)
    /\ \A i \in Lanes :
         ret[i] = Value(IF MagGt(n[i], 192) THEN r2[i]
                        ELSE IF MagGt(n[i], 126) THEN r1[i]
                        ELSE r0[i])

\* one call whose lanes take r0, r1 and r2, each where the candidates passed
\* over differ from the one taken
C8_Witness ==
  /\ ~want_simd_except /\ pc = "done"
  /\ \E i, j, k \in Lanes :
       /\ ~MagGt(n[i], 126) /\ ret[i] = Value(r0[i]) /\ r0[i] # r2[i]
       /\ MagGt(n[j], 126) /\ ~MagGt(n[j], 192)
       /\ ret[j] = Value(r1[j]) /\ r1[j] # r0[j] /\ r1[j] # r2[j]
       /\ MagGt(n[k], 192) /\ ret[k] = Value(r2[k]) /\ r2[k] # r1[k]

\* C9: without WANT_SIMD_EXCEPT, in a lane with an integer n, 126 < |n| <= 192,
\* s1 and s2 are positive normal powers of two whose exponents sum to n.
C9_SplitScale ==
  (~want_simd_except /\ pc = "done" /\ v_any_u32(cmp)) =>
    \A i \in Lanes :
      (IsSmallInt(n[i]) /\ MagGt(n[i], 126) /\ ~MagGt(n[i], 192)) =>
        /\ e[i] = U32Shl(z[i], 23)
        /\ s1[i] = U32Add(IF IntVal(n[i]) <= 0 THEN U32(\h8200, \h0000) ELSE AllZero,
                          U32(\h7f00, \h0000))
        /\ s2[i] = U32Sub(e[i], IF IntVal(n[i]) <= 0 THEN U32(\h8200, \h0000) ELSE AllZero)
        /\ IsPow2(s1[i]) /\ IsPow2(s2[i])
        /\ (ExpOf(s1[i]) - 127) + (ExpOf(s2[i]) - 127) = IntVal(n[i])

\* the two ends of the range in one call: n = 127 and n = -192 are in
\* different calls, so the witness is n = -192 with s1 = 0x1p-125, s2 = 0x1p-67
C9_Witness ==
  /\ ~want_simd_except /\ pc = "done"
  /\ \E i \in Lanes :
       /\ IsSmallInt(n[i]) /\ IntVal(n[i]) = -192
       /\ ExpOf(s1[i]) = 2 /\ ExpOf(s2[i]) = 60

\* C10: in both builds, in a lane that receives the ordinary reconstruction
\* (every lane with WANT_SIMD_EXCEPT, where the special lanes hold 1.0; the
\* lanes that are not special and whose n is a number without it), n is an
\* integer with |n| <= 126 and scale has sign 0, mantissa 0 and biased exponent
\* n + 127 within 1..254: scale is 2^n exactly.
C10_ScaleIsPow2 ==
  pc \in {"poly", "dispatch", "special", "done"} =>
    \A i \in Lanes :
      (want_simd_except \/ (~Flagged(i) /\ ~IsNaN(n[i]))) =>
        /\ IsSmallInt(n[i])
        /\ IntVal(n[i]) \in -126..126
        /\ z[i] = U32Add(data_shift, IF IntVal(n[i]) >= 0
                                      THEN U32(0, IntVal(n[i]))
                                      ELSE U32(Half - 1, Half + IntVal(n[i])))
        /\ IsPow2(scale[i])
        /\ ExpOf(scale[i]) = IntVal(n[i]) + 127

\* n = 126 in a lane that is not special, without WANT_SIMD_EXCEPT
C10_Witness ==
  /\ ~want_simd_except /\ pc = "done"
  /\ \E i \in Lanes :
       /\ ~Flagged(i) /\ IsSmallInt(n[i]) /\ IntVal(n[i]) = 126
       /\ ExpOf(scale[i]) = 253 /\ ret[i] = Value(Reconstruct(scale, poly)[i])

\* C4, as first stated: for every lane with |x| < 38, below the SpecialBound of
\* both builds, the two builds return the same result, both the ordinary
\* reconstruction from the same n and r.
C4_AsStated ==
  pc = "done" =>
    \A i \in Lanes :
      (IsFinite(arg[i]) /\ MagCmp(arg[i], 38, 0) < 0) =>
        ret[i] = Value(Ordinary(arg)[i])

\* C4: for every lane with 0x1p-63 <= |x| < 38 the two builds return the same
\* result, both the ordinary reconstruction vfmaq_f32 (scale, poly, scale) from
\* the same n and r; a lane in which a build returns anything else is a lane
\* outside that range, and the result of exp10f is returned by the
\* WANT_SIMD_EXCEPT build alone.
C4_RegimeEquivalence ==
  pc = "done" =>
    \A i \in Lanes :
      /\ InPlainRange(arg[i]) => ret[i] = Value(Ordinary(arg)[i])
      /\ ret[i].exp10f => (want_simd_except /\ ~InPlainRange(arg[i]))

\* the builds agreeing just inside -38 and differing on +0, in one call
C4_Witness ==
  /\ pc = "done"
  /\ \E i, j \in Lanes :
       /\ arg[i] = U32(\hc217, \hffff) /\ InPlainRange(arg[i])
       /\ ret[i] = V_exp10(~want_simd_except, arg)[i]
       /\ IsZero(arg[j]) /\ ret[j] # V_exp10(~want_simd_except, arg)[j]

====
